---- MODULE Spec2Model ----
(***************************************************************************)
(* Coordinate conversion between polar (distance, angle) and rectangular   *)
(* (northing, easting) values: the command-line program of                 *)
(* assignment/models.py and the converter of streamlit/kenya_demo.py.      *)
(*                                                                         *)
(* A Python float is a sign and a magnitude in hundredths: the sign is     *)
(* kept apart from the magnitude because IEEE zeros are signed and         *)
(* math.atan2 reads the sign of a zero.  Angles in radians, which the code *)
(* only holds in local variables, are a sign and a magnitude in            *)
(* millionths.  math.sin and math.cos are a table at whole degrees.        *)
(***************************************************************************)
EXTENDS Integers, Sequences, FiniteSets, TLC

VARIABLES
    input_coordinates,   \* models.py: the module-level list of entered values
    output_coordinates,  \* models.py: the module-level list of results
    stdout,              \* models.py: what print() has written, in order
    raised,              \* the exception the last call propagated, or "none"
    call,                \* the last call of models.py: its name, its argument
                         \* and the lengths of the lists when it began
    batch,               \* kenya_demo.py: outcome of the last "Process Batch"
    conv                 \* the last direct call of a conversion function

vars == <<input_coordinates, output_coordinates, stdout, raised, call, batch, conv>>

-----------------------------------------------------------------------------
(* Floats *)

\* hundredths: the resolution of a float held in a coordinate
Scale == 100
\* ten-thousandths: the resolution of a sine or cosine
TrigScale == 10000
\* millionths: the resolution of an angle in radians
RadScale == 1000000
\* math.pi in millionths, and twice that
Pi == 3141593
TwoPi == 6283185

F(n, m) == [neg |-> n, mag |-> m]

\* the float of a whole number of hundredths
Fl(i) == IF i < 0 THEN F(TRUE, -i) ELSE F(FALSE, i)

\* the numeric value (a negative zero is zero)
Num(f) == IF f.neg THEN -f.mag ELSE f.mag

Abs(i) == IF i < 0 THEN -i ELSE i

\* a / b rounded to nearest, a >= 0, b > 0
RoundDiv(a, b) == (a + b \div 2) \div b

\* x < 0 for a float: a negative zero is not below zero
Lt0(f) == f.neg /\ f.mag > 0

\* x % 360 for a float: the result takes the sign of the divisor
Mod360(f) ==
    IF f.neg
    THEN F(FALSE, (360 * Scale - (f.mag % (360 * Scale))) % (360 * Scale))
    ELSE F(FALSE, f.mag % (360 * Scale))

\* sin(k degrees) * TrigScale for k = 0..90
SinTable ==
   <<   0,   175,   349,   523,   698,   872,  1045,  1219,  1392,  1564,
      1736,  1908,  2079,  2250,  2419,  2588,  2756,  2924,  3090,  3256,
      3420,  3584,  3746,  3907,  4067,  4226,  4384,  4540,  4695,  4848,
      5000,  5150,  5299,  5446,  5592,  5736,  5878,  6018,  6157,  6293,
      6428,  6561,  6691,  6820,  6947,  7071,  7193,  7314,  7431,  7547,
      7660,  7771,  7880,  7986,  8090,  8192,  8290,  8387,  8480,  8572,
      8660,  8746,  8829,  8910,  8988,  9063,  9135,  9205,  9272,  9336,
      9397,  9455,  9511,  9563,  9613,  9659,  9703,  9744,  9781,  9816,
      9848,  9877,  9903,  9925,  9945,  9962,  9976,  9986,  9994,  9998,
     10000 >>

\* sin and cos at a whole degree k in 0..359.  The sign is the sign of the
\* float math.sin / math.cos return: sin(pi) and cos(pi/2) are tiny positive
\* numbers, cos(3pi/2) a tiny negative one, so a magnitude of 0 has a sign.
SinDeg(k) ==
    IF k <= 90 THEN F(FALSE, SinTable[k + 1])
    ELSE IF k <= 180 THEN F(FALSE, SinTable[180 - k + 1])
    ELSE IF k <= 270 THEN F(TRUE, SinTable[k - 180 + 1])
    ELSE F(TRUE, SinTable[360 - k + 1])

CosDeg(k) ==
    IF k <= 90 THEN F(FALSE, SinTable[90 - k + 1])
    ELSE IF k <= 180 THEN F(TRUE, SinTable[k - 90 + 1])
    ELSE IF k <= 270 THEN F(TRUE, SinTable[270 - k + 1])
    ELSE F(FALSE, SinTable[k - 270 + 1])

\* the whole degree nearest to an angle in radians, in 0..359
DegOfRad(r) == RoundDiv((r.mag % TwoPi) * 180, Pi) % 360

\* math.sin(r), math.cos(r), r in radians: sin is odd, cos is even
Sin(r) ==
    LET s == SinDeg(DegOfRad(r))
    IN  IF r.neg THEN F(~s.neg, s.mag) ELSE s

Cos(r) == CosDeg(DegOfRad(r))

\* math.radians(x): degrees in hundredths to radians in millionths
Radians(f) == F(f.neg, RoundDiv(f.mag * RoundDiv(Pi, Scale), 180))

\* math.degrees(r): radians in millionths to degrees in hundredths
Degrees(r) == F(r.neg, RoundDiv(r.mag * 180, RoundDiv(Pi, Scale)))

\* a float used as an angle in radians, and a radian angle stored as a float
RadOfFloat(f) == F(f.neg, f.mag * (RadScale \div Scale))
FloatOfRad(r) == F(r.neg, RoundDiv(r.mag, RadScale \div Scale))

\* distance * math.cos(...): a float times a sine or cosine
Mul(f, t) == F(f.neg # t.neg, RoundDiv(f.mag * t.mag, TrigScale))

RECURSIVE ISqrtBin(_, _, _)
\* the largest r in lo..hi with r * r <= n
ISqrtBin(n, lo, hi) ==
    IF lo >= hi THEN lo
    ELSE LET mid == (lo + hi + 1) \div 2
         IN  IF mid * mid <= n THEN ISqrtBin(n, mid, hi)
             ELSE ISqrtBin(n, lo, mid - 1)

\* math.sqrt(northing ** 2 + easting ** 2), rounded to nearest
Hypot(n, e) ==
    LET s == n.mag * n.mag + e.mag * e.mag
        r == ISqrtBin(s, 0, 46340)
    IN  F(FALSE, IF s - r * r > r THEN r + 1 ELSE r)

\* the projection of (x, |y|) on the direction k degrees
Dot(y, x, k) == Num(x) * Num(CosDeg(k)) + y.mag * SinDeg(k).mag

RECURSIVE Peak(_, _, _, _)
\* the first k in lo..hi at which the projection stops growing: the direction
\* of (x, |y|).  The projection rises up to that direction and falls after it.
Peak(y, x, lo, hi) ==
    IF lo >= hi THEN lo
    ELSE LET mid == (lo + hi) \div 2
         IN  IF Dot(y, x, mid) >= Dot(y, x, mid + 1) THEN Peak(y, x, lo, mid)
             ELSE Peak(y, x, mid + 1, hi)

\* math.atan2(y, x) in radians, to the nearest degree, in [-pi, pi].  With
\* both magnitudes zero the result is +-0 or +-pi by the signs of the zeros.
Atan2(y, x) ==
    LET k == IF y.mag = 0 /\ x.mag = 0
             THEN (IF x.neg THEN 180 ELSE 0)
             ELSE Peak(y, x, 0, 180)
    IN  F(y.neg, RoundDiv(k * Pi, 180))

-----------------------------------------------------------------------------
(* Text: a str is a sequence of one-character strings *)

IsSpace(c) == c \in {" ", "\n", "\t", "\r"}

RECURSIVE LStrip(_)
LStrip(s) == IF s # <<>> /\ IsSpace(Head(s)) THEN LStrip(Tail(s)) ELSE s

RECURSIVE RStrip(_)
RStrip(s) ==
    IF s # <<>> /\ IsSpace(s[Len(s)]) THEN RStrip(SubSeq(s, 1, Len(s) - 1))
    ELSE s

\* str.strip()
Strip(s) == RStrip(LStrip(s))

RECURSIVE SplitFrom(_, _, _)
\* the pieces of s between occurrences of sep, cur being the piece begun
SplitFrom(s, sep, cur) ==
    IF s = <<>> THEN <<cur>>
    ELSE IF Head(s) = sep THEN <<cur>> \o SplitFrom(Tail(s), sep, <<>>)
    ELSE SplitFrom(Tail(s), sep, Append(cur, Head(s)))

\* str.split(sep): always at least one piece
Split(s, sep) == SplitFrom(s, sep, <<>>)

DigitChars == <<"0", "1", "2", "3", "4", "5", "6", "7", "8", "9">>

IsDigit(c) == \E i \in 1..10 : DigitChars[i] = c

DigitVal(c) == (CHOOSE i \in 1..10 : DigitChars[i] = c) - 1

RECURSIVE NatOf(_, _)
\* the number a run of digits spells, acc being the value read so far
NatOf(s, acc) ==
    IF s = <<>> THEN acc ELSE NatOf(Tail(s), 10 * acc + DigitVal(Head(s)))

AllDigits(s) == \A i \in 1..Len(s) : IsDigit(s[i])

\* the hundredths a fraction's digits spell (digits after the second are cut)
FracOf(s) ==
    IF Len(s) = 0 THEN 0
    ELSE IF Len(s) = 1 THEN 10 * DigitVal(s[1])
    ELSE 10 * DigitVal(s[1]) + DigitVal(s[2])

\* float(s) for a decimal literal: surrounding whitespace, an optional sign,
\* digits with at most one point and at least one digit.  ok = FALSE is the
\* ValueError float() raises.
ParseFloat(s) ==
    LET t == Strip(s)
        signed == t # <<>> /\ Head(t) \in {"-", "+"}
        neg == t # <<>> /\ Head(t) = "-"
        body == IF signed THEN Tail(t) ELSE t
        pieces == Split(body, ".")
        whole == pieces[1]
        frac == IF Len(pieces) = 2 THEN pieces[2] ELSE <<>>
        ok == /\ Len(pieces) <= 2
              /\ AllDigits(whole) /\ AllDigits(frac)
              /\ Len(whole) + Len(frac) > 0
    IN  IF ok THEN [ok |-> TRUE,
                    val |-> F(neg, Scale * NatOf(whole, 0) + FracOf(frac))]
        ELSE [ok |-> FALSE, val |-> F(FALSE, 0)]

-----------------------------------------------------------------------------
(* Coordinate values and the conversion functions *)

\* an instance with attributes distance and angle (both classes PolarCoordinate)
Polar(d, a) == [type |-> "PolarCoordinate", distance |-> d, angle |-> a]

\* an instance with attributes northing and easting
Rect(n, e) == [type |-> "RectangularCoordinate", northing |-> n, easting |-> e]

IsPolar(c) == c.type = "PolarCoordinate"

\* kenya_demo.py PolarCoordinate.__init__: raises ValueError below zero
kenya_PolarCoordinate(distance, angle) ==
    IF Lt0(distance) THEN [ok |-> FALSE, error |-> "ValueError"]
    ELSE [ok |-> TRUE, val |-> Polar(distance, angle)]

\* models.py PolarCoordinate.__init__: stores what it is given
models_PolarCoordinate(distance, angle) == Polar(distance, angle)

\* kenya_demo.py polar_to_rect: the angle is in degrees
kenya_polar_to_rect(coord) ==
    LET angle_rad == Radians(coord.angle)
        northing == Mul(coord.distance, Cos(angle_rad))
        easting == Mul(coord.distance, Sin(angle_rad))
    IN  Rect(northing, easting)

\* rect_to_polar with the arguments of atan2 in the order (northing, easting)
kenya_rect_to_polar_swapped(coord) ==
    LET distance == Hypot(coord.northing, coord.easting)
        angle_rad == Atan2(coord.northing, coord.easting)
        angle_deg == Degrees(angle_rad)
        normal == IF Lt0(angle_deg) THEN Fl(Num(angle_deg) + 360 * Scale)
                  ELSE angle_deg
    IN  kenya_PolarCoordinate(distance, normal).val

\* kenya_demo.py rect_to_polar: degrees, a negative angle gets 360 added
kenya_rect_to_polar(coord) ==
    LET distance == Hypot(coord.northing, coord.easting)
        angle_rad == Atan2(coord.easting, coord.northing)
        angle_deg == Degrees(angle_rad)
        normal == IF Lt0(angle_deg) THEN Fl(Num(angle_deg) + 360 * Scale)
                  ELSE angle_deg
    IN  kenya_PolarCoordinate(distance, normal).val

\* models.py polar_to_rect: the angle goes to math.cos and math.sin as it is
models_polar_to_rect(coord) ==
    LET northing == Mul(coord.distance, Cos(RadOfFloat(coord.angle)))
        easting == Mul(coord.distance, Sin(RadOfFloat(coord.angle)))
    IN  Rect(northing, easting)

\* models.py rect_to_polar: the angle math.atan2 returns, as it is
models_rect_to_polar(coord) ==
    LET distance == Hypot(coord.northing, coord.easting)
        angle == FloatOfRad(Atan2(coord.easting, coord.northing))
    IN  models_PolarCoordinate(distance, angle)

\* models.py __str__ of either class: the class name and the two fields
Str(c) ==
    IF IsPolar(c) THEN <<"PolarCoordinate", c.distance, c.angle>>
    ELSE <<"RectangularCoordinate", c.northing, c.easting>>

-----------------------------------------------------------------------------
(* models.py: transform_coordinates and collect_coordinates *)

\* most values entered at one prompt sequence
MaxCount == 2
\* longest list handed to transform_coordinates directly
MaxSeq == 2
\* transform_coordinates is not called once output_coordinates would grow
\* past this
MaxOut == 3
\* collect_coordinates is not called once stdout would grow past this
MaxPrinted == 5

\* what a user types at a number prompt
TypedFirst == { <<"1", "0", "0">>, <<"-", "1">>, <<"x">> }
TypedSecond == { <<"0">>, <<"9", "0">> }

\* what a user types at the coordinate system prompt
TypedSystem == {"Polar", "polar", "Rectangular"}

\* str.lower() on those
Lower(s) == IF s = "Polar" THEN "polar"
            ELSE IF s = "Rectangular" THEN "rectangular" ELSE s

\* the values a caller hands to transform_coordinates
CoordSamples ==
    { Polar(Fl(10000), Fl(0)), Polar(Fl(10000), Fl(9000)),
      Polar(Fl(0), Fl(4500)),
      Rect(Fl(10000), Fl(0)), Rect(Fl(-10000), Fl(10000)),
      Rect(Fl(0), Fl(-10000)) }

SeqsUpTo(S, n) == UNION { [1..k -> S] : k \in 0..n }

RECURSIVE TransformLoop_per_element(_, _, _, _, _)
\* the loop with isinstance asked of every element: each element gets the
\* conversion of its own class and nothing raises
TransformLoop_per_element(input, i, fromPolar, out, printed) ==
    IF i > Len(input) THEN [out |-> out, printed |-> printed, raised |-> "none"]
    ELSE LET coord == IF IsPolar(input[i]) THEN models_polar_to_rect(input[i])
                      ELSE models_rect_to_polar(input[i])
         IN  TransformLoop_per_element(input, i + 1, fromPolar,
                 Append(out, coord), Append(printed, Str(coord)))

RECURSIVE TransformLoop(_, _, _, _, _)
\* the for loop of transform_coordinates from index i on: each element goes
\* to the conversion chosen from input[0]; an element without the attributes
\* that conversion reads raises AttributeError and ends the loop there
TransformLoop(input, i, fromPolar, out, printed) ==
    IF i > Len(input) THEN [out |-> out, printed |-> printed, raised |-> "none"]
    ELSE IF IsPolar(input[i]) # fromPolar
         THEN [out |-> out, printed |-> printed, raised |-> "AttributeError"]
         ELSE LET coord == IF fromPolar THEN models_polar_to_rect(input[i])
                           ELSE models_rect_to_polar(input[i])
              IN  TransformLoop(input, i + 1, fromPolar,
                                Append(out, coord), Append(printed, Str(coord)))

\* transform_coordinates with range(1, len(input)): input[0] is passed over
transform_coordinates_from_1(input, out, printed) ==
    IF Len(input) = 0
    THEN [out |-> out, printed |-> printed, raised |-> "IndexError"]
    ELSE TransformLoop(input, 2, IsPolar(input[1]), out, printed)

\* transform_coordinates(input) begun with the lists out and printed;
\* input[0] of an empty list raises IndexError
transform_coordinates(input, out, printed) ==
    IF Len(input) = 0
    THEN [out |-> out, printed |-> printed, raised |-> "IndexError"]
    ELSE TransformLoop(input, 1, IsPolar(input[1]), out, printed)

RECURSIVE CollectLoop(_, _, _, _)
\* the for loop of collect_coordinates from item k on: typed[k] is what is
\* typed at the two prompts of item k; float() of either may raise ValueError,
\* which leaves the items before it appended
CollectLoop(typed, k, polar, inp) ==
    IF k > Len(typed) THEN [inp |-> inp, raised |-> "none"]
    ELSE LET a == ParseFloat(typed[k][1])
             b == ParseFloat(typed[k][2])
         IN  IF ~a.ok \/ ~b.ok THEN [inp |-> inp, raised |-> "ValueError"]
             ELSE CollectLoop(typed, k + 1, polar,
                      Append(inp, IF polar THEN models_PolarCoordinate(a.val, b.val)
                                  ELSE Rect(a.val, b.val)))

Init ==
    /\ input_coordinates = <<>>
    /\ output_coordinates = <<>>
    /\ stdout = <<>>
    /\ raised = "none"
    /\ call = [op |-> "none"]
    /\ batch = [system |-> "none"]
    /\ conv = [fn |-> "none"]

\* a caller calls transform_coordinates(input)
TransformCoordinates(input) ==
    /\ Len(output_coordinates) + Len(input) <= MaxOut
    /\ LET r == transform_coordinates(input, output_coordinates, stdout)
       IN  /\ output_coordinates' = r.out
           /\ stdout' = r.printed
           /\ raised' = r.raised
    /\ call' = [op |-> "transform_coordinates", input |-> input,
                out0 |-> Len(output_coordinates), printed0 |-> Len(stdout)]
    /\ UNCHANGED <<input_coordinates, batch, conv>>

\* collect_coordinates(): the user types the system, the count and the values
CollectCoordinates(system, typed) ==
    /\ Len(stdout) + 1 + Len(input_coordinates) + Len(typed) <= MaxPrinted
    /\ LET input_count == Len(typed)
           c == CollectLoop(typed, 1, Lower(system) = "polar", input_coordinates)
           r == transform_coordinates(c.inp, output_coordinates,
                                      Append(stdout, <<"Hello">>))
       IN  /\ input_coordinates' = c.inp
           /\ IF c.raised # "none"
              THEN /\ output_coordinates' = output_coordinates
                   /\ stdout' = Append(stdout, <<"Hello">>)
                   /\ raised' = c.raised
              ELSE /\ output_coordinates' = r.out
                   /\ stdout' = r.printed
                   /\ raised' = r.raised
    /\ call' = [op |-> "collect_coordinates", input_count |-> Len(typed),
                inp0 |-> Len(input_coordinates),
                out0 |-> Len(output_coordinates), printed0 |-> Len(stdout)]
    /\ UNCHANGED <<batch, conv>>

\* a program that calls transform_coordinates with lists of its own
NextTransform ==
    \E input \in SeqsUpTo(CoordSamples, MaxSeq) : TransformCoordinates(input)

SpecTransform == Init /\ [][NextTransform]_vars

\* the program as start() runs it, any number of times
NextCli ==
    \E system \in TypedSystem :
       \E typed \in SeqsUpTo(TypedFirst \X TypedSecond, MaxCount) :
          CollectCoordinates(system, typed)

SpecCli == Init /\ [][NextCli]_vars

-----------------------------------------------------------------------------
(* kenya_demo.py: the "Process Batch" buttons *)

\* most lines typed into the batch text area
MaxLines == 3

\* lines a user types into the text area
LineSamples ==
    { <<"1", "0", "0", ".", "0", ",", " ", "4", "5", ".", "0">>,
      <<"b", "a", "d", ",", " ", "d", "a", "t", "a">>,
      <<"2", "0", "0", ",", "1", "3", "5">>,
      <<"1", ",", "2", ",", "3">>,
      <<"5">>,
      <<>>,
      <<"-", "1", ",", "0">>,
      <<" ", "0", " ", ",", "-", "9", "0", " ">> }

RECURSIVE Join(_)
\* "\n".join(lines)
Join(lines) ==
    IF Len(lines) = 0 THEN <<>>
    ELSE IF Len(lines) = 1 THEN lines[1]
    ELSE lines[1] \o <<"\n">> \o Join(Tail(lines))

\* the body of the try block for line i of a Polar -> Rectangular batch:
\* a row, nothing (the line does not split in two), or an exception
PolarLine(i, line) ==
    LET parts == Split(line, ",")
        dist == ParseFloat(Strip(parts[1]))
        angf == ParseFloat(Strip(parts[2]))
        ang == Mod360(angf.val)
        polar == kenya_PolarCoordinate(dist.val, ang)
        rect == kenya_polar_to_rect(polar.val)
    IN  IF Len(parts) # 2 THEN [kind |-> "skip"]
        ELSE IF ~dist.ok \/ ~angf.ok \/ ~polar.ok THEN [kind |-> "except"]
        ELSE [kind |-> "row",
              row |-> [Row |-> i, Distance |-> dist.val, Angle |-> ang,
                       Northing |-> rect.northing, Easting |-> rect.easting]]

\* the body of the try block for line i of a Rectangular -> Polar batch
RectLine(i, line) ==
    LET parts == Split(line, ",")
        north == ParseFloat(Strip(parts[1]))
        east == ParseFloat(Strip(parts[2]))
        polar == kenya_rect_to_polar(Rect(north.val, east.val))
    IN  IF Len(parts) # 2 THEN [kind |-> "skip"]
        ELSE IF ~north.ok \/ ~east.ok THEN [kind |-> "except"]
        ELSE [kind |-> "row",
              row |-> [Row |-> i, Northing |-> north.val, Easting |-> east.val,
                       Distance |-> polar.distance, Angle |-> polar.angle]]

\* what the try block does with line i, by the direction of the batch
BatchLine(system, i, line) ==
    IF system = "Polar -> Rectangular" THEN PolarLine(i, line)
    ELSE RectLine(i, line)

RECURSIVE BatchLoop_abort(_, _, _, _, _)
\* BatchLoop with the try around the loop: the first exception ends the batch
BatchLoop_abort(system, lines, i, results, warnings) ==
    IF i > Len(lines) THEN [results |-> results, warnings |-> warnings]
    ELSE LET r == BatchLine(system, i, lines[i])
         IN  IF r.kind = "except"
             THEN [results |-> results,
                   warnings |-> Append(warnings, <<i, lines[i]>>)]
             ELSE BatchLoop_abort(system, lines, i + 1,
                      IF r.kind = "row" THEN Append(results, r.row)
                      ELSE results,
                      warnings)

RECURSIVE BatchLoop(_, _, _, _, _)
\* for i, line in enumerate(lines, 1): a row is appended, an exception is
\* caught and a warning naming line i is shown, and the loop goes on
BatchLoop(system, lines, i, results, warnings) ==
    IF i > Len(lines) THEN [results |-> results, warnings |-> warnings]
    ELSE LET r == BatchLine(system, i, lines[i])
         IN  BatchLoop(system, lines, i + 1,
                 IF r.kind = "row" THEN Append(results, r.row) ELSE results,
                 IF r.kind = "except" THEN Append(warnings, <<i, lines[i]>>)
                 ELSE warnings)

\* the handler of a "Process Batch" button with batch_input in the text area:
\* shown is "success" with the table, "nothing" when no row was made, or the
\* warning "No valid coordinates to process" for a blank text
ProcessBatch(system, batch_input) ==
    /\ batch.system = "none"
    /\ batch' =
         IF Strip(batch_input) # <<>>
         THEN LET lines == Split(Strip(batch_input), "\n")
                  r == BatchLoop(system, lines, 1, <<>>, <<>>)
              IN  [system |-> system, batch_input |-> batch_input,
                   results |-> r.results, warnings |-> r.warnings,
                   shown |-> IF r.results # <<>> THEN "success" ELSE "nothing",
                   table |-> r.results]
         ELSE [system |-> system, batch_input |-> batch_input,
               results |-> <<>>, warnings |-> <<>>,
               shown |-> "No valid coordinates to process", table |-> <<>>]
    /\ UNCHANGED <<input_coordinates, output_coordinates, stdout, raised, call,
                   conv>>

\* any further interaction runs the script again from its top: results and
\* what was shown are locals of the run and are gone
Rerun ==
    /\ batch.system # "none"
    /\ batch' = [system |-> "none"]
    /\ UNCHANGED <<input_coordinates, output_coordinates, stdout, raised, call,
                   conv>>

NextBatch ==
    \/ \E system \in {"Polar -> Rectangular", "Rectangular -> Polar"} :
       \E ls \in SeqsUpTo(LineSamples, MaxLines) :
          ProcessBatch(system, Join(ls))
    \/ Rerun

SpecBatch == Init /\ [][NextBatch]_vars

-----------------------------------------------------------------------------
(* The conversion functions called on their own *)

\* distances are 0, 50, ... up to 50 * MaxDist, and -50
MaxDist == 4
\* angles are 0, 15, ... up to 15 * MaxAngle
MaxAngle == 23
\* northings and eastings are -50 * MaxRect, ..., 50 * MaxRect, and -0.0
MaxRect == 2

DistSamples == { Fl(i * 50 * Scale) : i \in -1..MaxDist }
AngleSamples == { Fl(i * 15 * Scale) : i \in 0..MaxAngle }
RectSamples == { Fl(i * 50 * Scale) : i \in -MaxRect..MaxRect } \cup {F(TRUE, 0)}

\* the argument as polar_to_rect and rect_to_polar of kenya_demo.py leave it:
\* they read its two fields and assign to neither
kenya_coord_after_call(coord) == coord

\* the argument as polar_to_rect and rect_to_polar of models.py leave it
models_coord_after_call(coord) == coord

\* kenya_demo.py: PolarCoordinate(distance, angle), then polar_to_rect of it
KenyaPolarToRect(distance, angle) ==
    /\ conv.fn = "none"
    /\ LET polar == kenya_PolarCoordinate(distance, angle)
       IN  conv' = IF polar.ok
                   THEN [fn |-> "kenya.polar_to_rect", arg |-> polar.val,
                         arg_after |-> kenya_coord_after_call(polar.val),
                         res |-> kenya_polar_to_rect(polar.val),
                         raised |-> "none"]
                   ELSE [fn |-> "kenya.PolarCoordinate",
                         arg |-> <<distance, angle>>, raised |-> polar.error]
    /\ UNCHANGED <<input_coordinates, output_coordinates, stdout, raised, call,
                   batch>>

\* kenya_demo.py: rect_to_polar(RectangularCoordinate(northing, easting))
KenyaRectToPolar(northing, easting) ==
    /\ conv.fn = "none"
    /\ conv' = [fn |-> "kenya.rect_to_polar", arg |-> Rect(northing, easting),
                arg_after |-> kenya_coord_after_call(Rect(northing, easting)),
                res |-> kenya_rect_to_polar(Rect(northing, easting)),
                raised |-> "none", from |-> [type |-> "caller"]]
    /\ UNCHANGED <<input_coordinates, output_coordinates, stdout, raised, call,
                   batch>>

\* kenya_demo.py: rect_to_polar of what polar_to_rect has just returned
KenyaRoundTrip ==
    /\ conv.fn = "kenya.polar_to_rect"
    /\ conv' = [fn |-> "kenya.rect_to_polar", arg |-> conv.res,
                arg_after |-> kenya_coord_after_call(conv.res),
                res |-> kenya_rect_to_polar(conv.res),
                raised |-> "none", from |-> conv.arg]
    /\ UNCHANGED <<input_coordinates, output_coordinates, stdout, raised, call,
                   batch>>

\* polar_to_rect that also appends its result to output_coordinates, as the
\* loop of transform_coordinates does
ModelsPolarToRect_appending(distance, angle) ==
    /\ conv.fn = "none"
    /\ conv' = [fn |-> "models.polar_to_rect",
                arg |-> models_PolarCoordinate(distance, angle),
                arg_after |->
                    models_coord_after_call(models_PolarCoordinate(distance, angle)),
                res |-> models_polar_to_rect(models_PolarCoordinate(distance, angle)),
                raised |-> "none"]
    /\ output_coordinates'
          = Append(output_coordinates,
                   models_polar_to_rect(models_PolarCoordinate(distance, angle)))
    /\ UNCHANGED <<input_coordinates, stdout, raised, call, batch>>

\* models.py: polar_to_rect(PolarCoordinate(distance, angle))
ModelsPolarToRect(distance, angle) ==
    /\ conv.fn = "none"
    /\ conv' = [fn |-> "models.polar_to_rect",
                arg |-> models_PolarCoordinate(distance, angle),
                arg_after |->
                    models_coord_after_call(models_PolarCoordinate(distance, angle)),
                res |-> models_polar_to_rect(models_PolarCoordinate(distance, angle)),
                raised |-> "none"]
    /\ UNCHANGED <<input_coordinates, output_coordinates, stdout, raised, call,
                   batch>>

\* models.py: rect_to_polar(RectangularCoordinate(northing, easting))
ModelsRectToPolar(northing, easting) ==
    /\ conv.fn = "none"
    /\ conv' = [fn |-> "models.rect_to_polar", arg |-> Rect(northing, easting),
                arg_after |-> models_coord_after_call(Rect(northing, easting)),
                res |-> models_rect_to_polar(Rect(northing, easting)),
                raised |-> "none", from |-> [type |-> "caller"]]
    /\ UNCHANGED <<input_coordinates, output_coordinates, stdout, raised, call,
                   batch>>

\* models.py: rect_to_polar of what polar_to_rect has just returned
ModelsRoundTrip ==
    /\ conv.fn = "models.polar_to_rect"
    /\ conv' = [fn |-> "models.rect_to_polar", arg |-> conv.res,
                arg_after |-> models_coord_after_call(conv.res),
                res |-> models_rect_to_polar(conv.res),
                raised |-> "none", from |-> conv.arg]
    /\ UNCHANGED <<input_coordinates, output_coordinates, stdout, raised, call,
                   batch>>

\* the caller drops the value returned and is free to call again
Return ==
    /\ conv.fn # "none"
    /\ conv' = [fn |-> "none"]
    /\ UNCHANGED <<input_coordinates, output_coordinates, stdout, raised, call,
                   batch>>

NextConv ==
    \/ \E d \in DistSamples : \E a \in AngleSamples : KenyaPolarToRect(d, a)
    \/ \E n \in RectSamples : \E e \in RectSamples : KenyaRectToPolar(n, e)
    \/ KenyaRoundTrip
    \/ \E d \in DistSamples : \E a \in AngleSamples : ModelsPolarToRect(d, a)
    \/ \E n \in RectSamples : \E e \in RectSamples : ModelsRectToPolar(n, e)
    \/ ModelsRoundTrip
    \/ Return

SpecConv == Init /\ [][NextConv]_vars

\* the four conversion functions
PureFns == {"kenya.polar_to_rect", "kenya.rect_to_polar",
            "models.polar_to_rect", "models.rect_to_polar"}

\* fn(coord) for a function of PureFns
Apply(fn, coord) ==
    IF fn = "kenya.polar_to_rect" THEN kenya_polar_to_rect(coord)
    ELSE IF fn = "kenya.rect_to_polar" THEN kenya_rect_to_polar(coord)
    ELSE IF fn = "models.polar_to_rect" THEN models_polar_to_rect(coord)
    ELSE models_rect_to_polar(coord)

\* the argument as fn leaves it
CoordAfterCall(fn, coord) ==
    IF fn \in {"kenya.polar_to_rect", "kenya.rect_to_polar"}
    THEN kenya_coord_after_call(coord)
    ELSE models_coord_after_call(coord)

\* the caller calls the same function a second time with the argument as the
\* first call left it; first is what the first call returned
CallAgain ==
    /\ conv.fn \in PureFns
    /\ "first" \notin DOMAIN conv
    /\ conv' = [fn |-> conv.fn, arg |-> conv.arg_after,
                arg_after |-> CoordAfterCall(conv.fn, conv.arg_after),
                res |-> Apply(conv.fn, conv.arg_after),
                raised |-> "none", first |-> conv.res]
    /\ UNCHANGED <<input_coordinates, output_coordinates, stdout, raised, call,
                   batch>>

\* before any conversion is called on its own, one value is entered at the
\* prompts of collect_coordinates, which fills the two module-level lists
EnterOne ==
    /\ conv.fn = "none"
    /\ stdout = <<>>
    /\ \E system \in TypedSystem : \E t \in TypedFirst \X TypedSecond :
          CollectCoordinates(system, <<t>>)

\* a program that enters a value and then calls the conversions on their own
NextPure ==
    \/ NextConv
    \/ CallAgain
    \/ EnterOne

SpecPure == Init /\ [][NextPure]_vars

-----------------------------------------------------------------------------
(* Properties *)

\* "about": a degree for angles, five hundredths for lengths
AngleTol == Scale
DistTol == Scale \div 20

\* a line of a batch is well formed: exactly two comma-separated fields, both
\* numbers, and for polar input a distance that is not below zero
WellFormed(system, line) ==
    LET parts == Split(line, ",")
    IN  /\ Len(parts) = 2
        /\ ParseFloat(parts[1]).ok
        /\ ParseFloat(parts[2]).ok
        /\ system = "Polar -> Rectangular" => ~Lt0(ParseFloat(parts[1]).val)

RECURSIVE WellFormedFrom(_, _, _)
\* the positions i..Len(lines) of the well-formed lines, ascending
WellFormedFrom(system, lines, i) ==
    IF i > Len(lines) THEN <<>>
    ELSE (IF WellFormed(system, lines[i]) THEN <<i>> ELSE <<>>)
         \o WellFormedFrom(system, lines, i + 1)

\* the Row column of the result rows
RowColumn(results) == [k \in 1..Len(results) |-> results[k].Row]

\* row r carries the two numbers of line and their conversion
RowOfLine(system, r, line) ==
    LET parts == Split(line, ",")
        a == ParseFloat(parts[1]).val
        b == ParseFloat(parts[2]).val
    IN  IF system = "Polar -> Rectangular"
        THEN /\ r.Distance = a
             /\ r.Angle = Mod360(b)
             /\ Rect(r.Northing, r.Easting) = kenya_polar_to_rect(Polar(a, Mod360(b)))
        ELSE /\ r.Northing = a
             /\ r.Easting = b
             /\ Polar(r.Distance, r.Angle) = kenya_rect_to_polar(Rect(a, b))

\* the result rows are the well-formed lines of lines, in order, each with
\* its position in lines as Row
RowsAreWellFormedLines(lines) ==
    /\ RowColumn(batch.results) = WellFormedFrom(batch.system, lines, 1)
    /\ \A k \in 1..Len(batch.results) :
          /\ batch.results[k].Row \in 1..Len(lines)
          /\ RowOfLine(batch.system, batch.results[k],
                       lines[batch.results[k].Row])

\* C1 as stated: for every non-empty batch text the result rows are exactly
\* the well-formed lines, in input order, each with the 1-indexed position of
\* its line in the input as Row.
C1_RowIsPositionInInput ==
    (batch.system # "none" /\ batch.batch_input # <<>>)
       => RowsAreWellFormedLines(Split(batch.batch_input, "\n"))

\* C1 amended: for every non-empty batch text the result rows are exactly the
\* well-formed lines, in input order, and Row is the 1-indexed position of the
\* line in the text with its leading and trailing whitespace stripped, so
\* blank lines before the first non-blank line are not counted; a malformed
\* line never prevents another line from being converted.
C1_RowIsPositionInStrippedText ==
    (batch.system # "none" /\ batch.batch_input # <<>>)
       => RowsAreWellFormedLines(
             IF Strip(batch.batch_input) = <<>> THEN <<>>
             ELSE Split(Strip(batch.batch_input), "\n"))

\* C1 witness: lines 1 and 3 are converted around a line 2 that raised
C1_Witness ==
    /\ batch.system = "Polar -> Rectangular"
    /\ RowColumn(batch.results) = <<1, 3>>
    /\ Len(batch.warnings) = 1
    /\ batch.warnings[1][1] = 2

\* C2: the number of per-line warnings equals the number of lines of the
\* processed text that produce no result row.
C2_WarningPerRejectedLine ==
    (batch.system # "none" /\ Strip(batch.batch_input) # <<>>)
       => Len(batch.warnings)
            = Len(Split(Strip(batch.batch_input), "\n")) - Len(batch.results)

\* C3: a collect_coordinates request that ends without an error has converted
\* only the coordinates entered in that request, so output_coordinates holds
\* one result per entered coordinate.
C3_ConvertsOnlyEntered ==
    (call.op = "collect_coordinates" /\ raised = "none")
       => /\ Len(output_coordinates) - call.out0 = call.input_count
          /\ Len(output_coordinates) = Len(input_coordinates)

\* C4: a batch over an empty input never raises an error: transform_coordinates
\* on an empty sequence, collect_coordinates with an item count of 0, and the
\* text batch given an empty or whitespace-only text.
C4_EmptyNeverRaises ==
    /\ (call.op = "transform_coordinates" /\ call.input = <<>>)
          => raised = "none"
    /\ (call.op = "collect_coordinates" /\ call.input_count = 0
           /\ call.inp0 = 0)
          => raised = "none"
    /\ (batch.system # "none" /\ Strip(batch.batch_input) = <<>>)
          => batch.shown = "No valid coordinates to process"

\* the elements of a list are all of one class
Homogeneous(input) ==
    \A i \in 1..Len(input) : IsPolar(input[i]) = IsPolar(input[1])

\* the conversion of a value to the other class, by models.py
Converted(c) ==
    IF IsPolar(c) THEN models_polar_to_rect(c) ELSE models_rect_to_polar(c)

\* C5: a call transform_coordinates(input) with a non-empty input whose
\* elements are all of one class appends exactly len(input) elements of the
\* opposite class to output_coordinates, the i-th the conversion of input[i],
\* and prints the same elements in the same order.
C5_TransformAppendsConversions ==
    [][(call'.op = "transform_coordinates" /\ call'.input # <<>>
           /\ Homogeneous(call'.input))
        => /\ raised' = "none"
           /\ output_coordinates'
                = output_coordinates
                    \o [i \in 1..Len(call'.input) |-> Converted(call'.input[i])]
           /\ \A i \in 1..Len(call'.input) :
                 IsPolar(output_coordinates'[Len(output_coordinates) + i])
                    # IsPolar(call'.input[i])
           /\ stdout'
                = stdout
                    \o [i \in 1..Len(call'.input)
                          |-> Str(Converted(call'.input[i]))]]_vars

\* C5 witness: a call with two values of one class, after an earlier call
C5_Witness ==
    /\ call.op = "transform_coordinates"
    /\ Len(call.input) = 2
    /\ Homogeneous(call.input)
    /\ call.input[1] # call.input[2]
    /\ call.out0 > 0
    /\ Len(output_coordinates) = call.out0 + 2

\* C6: a polar value with distance below zero is rejected at construction on
\* every path, so none is ever converted by polar_to_rect.
C6_NoNegativeDistanceConverted ==
    (call.op = "collect_coordinates" /\ raised = "none")
       => \A i \in 1..Len(input_coordinates) :
             IsPolar(input_coordinates[i])
                => ~Lt0(input_coordinates[i].distance)

\* C7: the angle rect_to_polar returns lies in [0, 360): never negative and
\* never 360.
C7_AngleInRange ==
    conv.fn \in {"kenya.rect_to_polar", "models.rect_to_polar"}
       => /\ ~Lt0(conv.res.angle)
          /\ conv.res.angle.mag < 360 * Scale

\* a is within AngleTol of deg degrees
AboutDegrees(a, deg) == Abs(Num(a) - deg * Scale) <= AngleTol

\* C8 as stated: rect_to_polar(northing=-100, easting=100) yields an angle of
\* about 315 degrees.
C8_SouthEastIs315 ==
    (conv.fn = "kenya.rect_to_polar"
        /\ conv.arg = Rect(Fl(-100 * Scale), Fl(100 * Scale)))
       => AboutDegrees(conv.res.angle, 315)

\* C8 amended: rect_to_polar(northing=-100, easting=100) yields an angle of
\* about 135 degrees: a point with negative northing and positive easting is
\* reported in the SE range (90, 180), its raw atan2 result being positive so
\* that normalization adds nothing.  It is a point with positive northing and
\* negative easting, such as (100, -100) at about 315, that is reported in the
\* NW range (270, 360), normalization adding 360 to a negative raw result.
C8_SouthEastIs135 ==
    conv.fn = "kenya.rect_to_polar"
       => LET n == conv.arg.northing
              e == conv.arg.easting
              a == Num(conv.res.angle)
          IN  /\ (n = Fl(-100 * Scale) /\ e = Fl(100 * Scale))
                    => AboutDegrees(conv.res.angle, 135)
              /\ (Lt0(n) /\ Num(e) > 0) => (90 * Scale < a /\ a < 180 * Scale)
              /\ (n = Fl(100 * Scale) /\ e = Fl(-100 * Scale))
                    => AboutDegrees(conv.res.angle, 315)
              /\ (Num(n) > 0 /\ Lt0(e)) => (270 * Scale < a /\ a < 360 * Scale)

\* C8 witness: rect_to_polar has been called with (-100, 100)
C8_Witness ==
    /\ conv.fn = "kenya.rect_to_polar"
    /\ conv.arg = Rect(Fl(-100 * Scale), Fl(100 * Scale))
    /\ conv.res.angle = Fl(135 * Scale)

\* the distance between two angles on the circle of 360
CircleDiff(a, b) ==
    LET d == Abs(a - b) % (360 * Scale)
    IN  IF d > 180 * Scale THEN 360 * Scale - d ELSE d

\* C9: for distance >= 0 and angle in [0, 360), rect_to_polar of polar_to_rect
\* returns the distance and, modulo 360, the angle it began with, within
\* tolerance, except that for distance 0 the angle returned is 0.
C9_RoundTrip ==
    (conv.fn \in {"kenya.rect_to_polar", "models.rect_to_polar"}
        /\ conv.from.type = "PolarCoordinate"
        /\ ~Lt0(conv.from.distance)
        /\ ~Lt0(conv.from.angle) /\ conv.from.angle.mag < 360 * Scale)
       => /\ Abs(Num(conv.res.distance) - Num(conv.from.distance)) <= DistTol
          /\ IF conv.from.distance.mag = 0
             THEN Num(conv.res.angle) = 0
             ELSE CircleDiff(Num(conv.res.angle), Num(conv.from.angle))
                     <= AngleTol

\* C10: for every D >= 0, polar_to_rect(D, 0) yields (D, 0) and
\* polar_to_rect(D, 90) yields (about 0, D).
C10_AxisConvention ==
    (conv.fn \in {"kenya.polar_to_rect", "models.polar_to_rect"}
        /\ ~Lt0(conv.arg.distance))
       => /\ conv.arg.angle = Fl(0)
             => /\ Num(conv.res.northing) = Num(conv.arg.distance)
                /\ Num(conv.res.easting) = 0
          /\ conv.arg.angle = Fl(90 * Scale)
             => /\ Abs(Num(conv.res.northing)) <= DistTol
                /\ Abs(Num(conv.res.easting) - Num(conv.arg.distance))
                      <= DistTol

FirstWrong(input) ==
    IF Homogeneous(input) THEN Len(input) + 1
    ELSE CHOOSE w \in 2..Len(input) :
            /\ IsPolar(input[w]) # IsPolar(input[1])
            /\ \A i \in 1..(w - 1) : IsPolar(input[i]) = IsPolar(input[1])

\* C12: transform_coordinates chooses the conversion once from the class of
\* input[0] and applies it to every element: the elements before the first
\* one of the other class are converted by it and appended, in order; at that
\* element (index k, counting from 0) the call fails, with the k earlier
\* results already appended to output_coordinates; a list with no such
\* element is converted whole.
C12_DispatchOnFirstElement ==
    [][(call'.op = "transform_coordinates" /\ call'.input # <<>>)
        => LET input == call'.input
               w == FirstWrong(input)
               done == [i \in 1..(w - 1) |->
                          IF IsPolar(input[1]) THEN models_polar_to_rect(input[i])
                          ELSE models_rect_to_polar(input[i])]
           IN  /\ output_coordinates' = output_coordinates \o done
               /\ raised' = IF w <= Len(input) THEN "AttributeError"
                            ELSE "none"]_vars

\* C12 witness: a list whose second element is of the other class has failed
\* at it, after the first element's result was appended
C12_Witness ==
    /\ call.op = "transform_coordinates"
    /\ Len(call.input) = 2
    /\ IsPolar(call.input[1]) /\ ~IsPolar(call.input[2])
    /\ raised = "AttributeError"
    /\ Len(output_coordinates) = call.out0 + 1
    /\ output_coordinates[call.out0 + 1] = models_polar_to_rect(call.input[1])

====
